---- MODULE Spec2Model ----
(***************************************************************************)
(* A model of fframework: deferred-evaluation Function nodes                *)
(* (fframework/function.py, fframework/op.py).                               *)
(*                                                                           *)
(* Function objects live in `heap` (index = object identity).  Construction *)
(* calls (asfunction, the operator overloads of OpFunction, compound, the   *)
(* constructors of Clip and InBetween) allocate nodes; Call evaluates a     *)
(* node with call arguments and records the sequence of invocations.        *)
(*                                                                           *)
(* Two properties of the build are fixed in the initial state and never     *)
(* change: numpy_available (op.py:3-9), and python3, the interpreter the    *)
(* package runs under (the source is valid in Python 2 and in Python 3; the *)
(* builtin map() returns a list in the former and a one-shot iterator in    *)
(* the latter).                                                              *)
(*                                                                           *)
(* Abstraction: numbers are integers; a numpy scalar is identified with the *)
(* Python scalar of the same value.                                          *)
(***************************************************************************)
EXTENDS Integers, Sequences, FiniteSets, TLC

VARIABLES
  heap,             \* the Function objects constructed so far, by identity
  numpy_available,  \* op.numpy_available
  python3,          \* the interpreter is Python 3 (else Python 2)
  nbuilt,           \* the number of construction calls made so far
  last,             \* the last call made by the user: a construction call or
                    \* an evaluation, with its operands and its outcome
  prev              \* the outcome of the call before it, when both are
                    \* evaluations of the same object with the same arguments

vars == <<heap, numpy_available, python3, nbuilt, last, prev>>

\* ------------------------------------------------------------------ bounds

\* construction calls per behaviour
MaxBuilds == 2
\* plain integers 1..MaxInt
MaxInt == 2
\* elements of a list or tuple literal, items of a dict literal
MaxLen == 2

\* ------------------------------------------------------------ Python values

Val(t, n, k) == [t |-> t, n |-> n, k |-> k]
IntV(n) == Val("int", n, <<>>)
BoolV(b) == Val("bool", IF b THEN 1 ELSE 0, <<>>)
\* a numpy.bool_, the result type of numpy.logical_and
NpBoolV(b) == Val("bool_", IF b THEN 1 ELSE 0, <<>>)
NoneV == Val("none", 0, <<>>)
ListV(s) == Val("list", 0, s)
TupleV(s) == Val("tuple", 0, s)
\* a dict: its items, TupleV(<<key, value>>), in iteration order
DictV(items) == Val("dict", 0, items)
\* a reference to the Function object heap[id]
RefV(id) == Val("ref", id, <<>>)

IsNum(v) == v.t \in {"int", "bool", "bool_"}
IsRef(v) == v.t = "ref"

\* call arguments: *args and **kwargs (kwargs as a sequence of items)
Args(pos, kw) == [pos |-> pos, kw |-> kw]
NoArgs == Args(<<>>, <<>>)
KwItem(name, v) == [name |-> name, v |-> v]

\* the outcome of a Python expression: a value, or a raised exception
Good(v) == [val |-> v, err |-> ""]
Bad(e) == [val |-> NoneV, err |-> e]

RECURSIVE PyEq(_, _)
\* a == b on values
PyEq(a, b) ==
  IF IsNum(a) /\ IsNum(b) THEN a.n = b.n
  ELSE IF a.t # b.t THEN FALSE
  ELSE IF a.t \in {"list", "tuple"}
       THEN /\ Len(a.k) = Len(b.k)
            /\ \A i \in 1..Len(a.k) : PyEq(a.k[i], b.k[i])
  ELSE IF a.t = "dict"
       THEN /\ Len(a.k) = Len(b.k)
            /\ \A i \in 1..Len(a.k) : \E j \in 1..Len(b.k) :
                  PyEq(a.k[i].k[1], b.k[j].k[1]) /\ PyEq(a.k[i].k[2], b.k[j].k[2])
  ELSE a = b

\* Python 2 orders values of different types: None, then numbers, then the
\* rest by type name
TypeRank(v) ==
  CASE v.t = "none" -> 0
    [] IsNum(v) -> 1
    [] v.t = "dict" -> 2
    [] v.t = "list" -> 3
    [] v.t = "tuple" -> 4

RECURSIVE PyCmp(_, _, _)
\* the three-way comparison behind a < b and a <= b: -1, 0 or 1, under
\* Python 3 (py3: values of different types do not order) or Python 2
PyCmp(a, b, py3) ==
  IF IsNum(a) /\ IsNum(b)
  THEN Good(IntV(IF a.n < b.n THEN 0 - 1 ELSE IF a.n = b.n THEN 0 ELSE 1))
  ELSE IF a.t = b.t /\ a.t \in {"list", "tuple"}
       THEN LET m == IF Len(a.k) < Len(b.k) THEN Len(a.k) ELSE Len(b.k)
                diff == {i \in 1..m : ~PyEq(a.k[i], b.k[i])}
            IN  IF diff = {}
                THEN Good(IntV(IF Len(a.k) < Len(b.k) THEN 0 - 1
                               ELSE IF Len(a.k) = Len(b.k) THEN 0 ELSE 1))
                ELSE LET i == CHOOSE i \in diff : \A j \in diff : i <= j
                     IN  PyCmp(a.k[i], b.k[i], py3)
  ELSE IF py3 THEN Bad("TypeError")
  ELSE IF a.t = "none" /\ b.t = "none" THEN Good(IntV(0))
  ELSE CASE TypeRank(a) < TypeRank(b) -> Good(IntV(0 - 1))
         [] TypeRank(a) > TypeRank(b) -> Good(IntV(1))

\* a comparison read off the three-way comparison c: true when c <= bound
Below(c, bound) == IF c.err # "" THEN c ELSE Good(BoolV(c.val.n <= bound))

\* a < b
PyLess(a, b, py3) == Below(PyCmp(a, b, py3), 0 - 1)

\* a <= b
PyLessEqual(a, b, py3) == Below(PyCmp(a, b, py3), 0)

\* a + b
PyAdd(a, b) ==
  IF a.t = "bool_" /\ b.t = "bool_" THEN Good(NpBoolV(a.n + b.n > 0))
  ELSE IF IsNum(a) /\ IsNum(b) THEN Good(IntV(a.n + b.n))
  ELSE IF a.t = b.t /\ a.t \in {"list", "tuple"} THEN Good(Val(a.t, 0, a.k \o b.k))
  ELSE Bad("TypeError")

RECURSIVE Repeat(_, _)
Repeat(s, n) == IF n <= 0 THEN <<>> ELSE s \o Repeat(s, n - 1)

\* a * b
PyMul(a, b) ==
  IF a.t = "bool_" /\ b.t = "bool_" THEN Good(NpBoolV(a.n * b.n > 0))
  ELSE IF IsNum(a) /\ IsNum(b) THEN Good(IntV(a.n * b.n))
  ELSE IF a.t \in {"list", "tuple"} /\ IsNum(b) THEN Good(Val(a.t, 0, Repeat(a.k, b.n)))
  ELSE IF b.t \in {"list", "tuple"} /\ IsNum(a) THEN Good(Val(b.t, 0, Repeat(b.k, a.n)))
  ELSE Bad("TypeError")

\* -a
PyNeg(a) ==
  IF IsNum(a) /\ a.t # "bool_" THEN Good(IntV(0 - a.n)) ELSE Bad("TypeError")

RECURSIVE Hashable(_)
\* hash(v) succeeds
Hashable(v) ==
  CASE v.t \in {"list", "dict"} -> FALSE
    [] v.t = "tuple" -> \A i \in 1..Len(v.k) : Hashable(v.k[i])
    [] OTHER -> TRUE

RECURSIVE DictSet(_, _, _, _)
\* d[key] = v on the items of a dict, from position i on: an equal key keeps
\* its place and gets the new value, a new key is appended
DictSet(items, i, key, v) ==
  IF i > Len(items) THEN Append(items, TupleV(<<key, v>>))
  ELSE IF PyEq(items[i].k[1], key)
       THEN [items EXCEPT ![i] = TupleV(<<items[i].k[1], v>>)]
  ELSE DictSet(items, i + 1, key, v)

RECURSIVE DictOfZip(_, _, _, _)
\* dict(zip(keys, values)), from position i on, added to items
DictOfZip(keys, values, i, items) ==
  IF i > Len(keys) \/ i > Len(values) THEN Good(DictV(items))
  ELSE IF ~Hashable(keys[i]) THEN Bad("TypeError")
  ELSE DictOfZip(keys, values, i + 1, DictSet(items, 1, keys[i], values[i]))

\* indexable.__getitem__(index)
PyGetItem(x, index) ==
  IF x.t \in {"list", "tuple"}
  THEN IF ~IsNum(index) THEN Bad("TypeError")
       ELSE LET i == IF index.n < 0 THEN index.n + Len(x.k) ELSE index.n
            IN  IF i >= 0 /\ i < Len(x.k) THEN Good(x.k[i + 1]) ELSE Bad("IndexError")
  ELSE IF x.t = "dict"
       THEN IF ~Hashable(index) THEN Bad("TypeError")
            ELSE LET hit == {i \in 1..Len(x.k) : PyEq(x.k[i].k[1], index)}
                 IN  IF hit = {} THEN Bad("KeyError")
                     ELSE Good(x.k[CHOOSE i \in hit : TRUE].k[2])
  ELSE Bad("AttributeError")

\* numpy.clip(leaf, low, high) on scalars: minimum(maximum(leaf, low), high)
NumpyClip(leaf, low, high) ==
  CASE IsNum(leaf) /\ IsNum(low) /\ IsNum(high) ->
         LET m == IF leaf.n < low.n THEN low.n ELSE leaf.n
         IN  Good(IntV(IF m < high.n THEN m ELSE high.n))
    [] "none" \in {leaf.t, low.t, high.t} -> Bad("TypeError")

\* numpy.logical_and(x, y) on scalars
NumpyLogicalAnd(x, y) ==
  CASE IsNum(x) /\ IsNum(y) -> Good(NpBoolV(x.n # 0 /\ y.n # 0))

\* --------------------------------------------------------- Function objects

\* A Function object.  ch: its child Functions (by identity), in the order of
\* the attributes its constructor sets; ch2: the second child collection of a
\* _Dict (its values; ch holds its keys); val: the stored plain value of a
\* Constant, or the stored positional parameter of an Apply; it, it2: the
\* number of elements already drawn from the object map() returned for ch
\* and ch2 (moves only where map() is an iterator).
Node(kind, ch, ch2, val) ==
  [kind |-> kind, ch |-> ch, ch2 |-> ch2, val |-> val, it |-> 0, it2 |-> 0]

\* isinstance(f, OpFunction)
IsOp(kind) == kind \notin {"Constant", "Identity"}

\* hash(f): OpFunction defines __eq__ and no __hash__
HashableFunction(kind) == ~IsOp(kind)

Alloc(h, node) == [h |-> Append(h, node), ref |-> Len(h) + 1, err |-> ""]

\* ------------------------------------------------------------- evaluation

\* events of one evaluation, in order: a node is invoked (call), returns a
\* value (ret) or fails (raise); d is the depth below the evaluated root
CallEv(id, args, d) ==
  [e |-> "call", node |-> id, d |-> d, args |-> args, val |-> NoneV, err |-> ""]
RetEv(id, d, v) ==
  [e |-> "ret", node |-> id, d |-> d, args |-> NoArgs, val |-> v, err |-> ""]
RaiseEv(id, d, err) ==
  [e |-> "raise", node |-> id, d |-> d, args |-> NoArgs, val |-> NoneV, err |-> err]

\* the outcome of evaluating a node: the heap afterwards, the value or the
\* exception, and the events of its children
R(h, v, err, tr) == [h |-> h, val |-> v, err |-> err, tr |-> tr]

\* where iteration over the object map() returned starts, and what is left
\* of it after n elements were drawn
MapIterStart(it) == IF python3 THEN it ELSE 0
MapIterAfter(n) == IF python3 THEN n ELSE 0

RECURSIVE Eval(_, _, _, _)
RECURSIVE EvalSeq(_, _, _, _, _)

\* [element(*args, **kwargs) for element in ids], i elements already drawn
EvalSeq(h, ids, i, args, d) ==
  IF i >= Len(ids)
  THEN [h |-> h, vals |-> <<>>, err |-> "", tr |-> <<>>, n |-> Len(ids)]
  ELSE LET r == Eval(h, ids[i + 1], args, d)
       IN  IF r.err # ""
           THEN [h |-> r.h, vals |-> <<>>, err |-> r.err, tr |-> r.tr, n |-> i + 1]
           ELSE LET rest == EvalSeq(r.h, ids, i + 1, args, d)
                IN  [h |-> rest.h, vals |-> <<r.val>> \o rest.vals, err |-> rest.err,
                     tr |-> r.tr \o rest.tr, n |-> rest.n]

\* Constant.__call__
EvalConstant(h, id, args, d) == R(h, h[id].val, "", <<>>)

\* Identity.__call__(self, *args)
EvalIdentity(h, id, args, d) ==
  IF args.kw # <<>> THEN R(h, NoneV, "TypeError", <<>>)
  ELSE IF Len(args.pos) = 1 THEN R(h, args.pos[1], "", <<>>)
  ELSE R(h, TupleV(args.pos), "", <<>>)

\* OpWrap.__call__
EvalOpWrap(h, id, args, d) ==
  LET r == Eval(h, h[id].ch[1], args, d + 1)
  IN  R(r.h, r.val, r.err, r.tr)

\* fault variant of EvalComposed: b is invoked first, with the call arguments,
\* and a with b's result
EvalComposedReversed(h, id, args, d) ==
  LET rb == Eval(h, h[id].ch[2], args, d + 1)
  IN  IF rb.err # "" THEN R(rb.h, NoneV, rb.err, rb.tr)
      ELSE LET ra == Eval(rb.h, h[id].ch[1], Args(<<rb.val>>, <<>>), d + 1)
           IN  R(ra.h, ra.val, ra.err, rb.tr \o ra.tr)

\* ComposedFunction.__call__
EvalComposed(h, id, args, d) ==
  LET ra == Eval(h, h[id].ch[1], args, d + 1)
  IN  IF ra.err # "" THEN R(ra.h, NoneV, ra.err, ra.tr)
      ELSE LET rb == Eval(ra.h, h[id].ch[2], Args(<<ra.val>>, <<>>), d + 1)
           IN  R(rb.h, rb.val, rb.err, ra.tr \o rb.tr)

\* the native operation of a binary node
BinOp(kind, x, y) ==
  CASE kind = "Sum" -> PyAdd(x, y)
    [] kind = "Product" -> PyMul(x, y)
    [] kind = "Less" -> PyLess(x, y, python3)

\* fault variant of EvalBinary: the second operand is invoked without the
\* keyword arguments
EvalBinaryDropsKwargs(h, id, args, d) ==
  LET r1 == Eval(h, h[id].ch[1], args, d + 1)
  IN  IF r1.err # "" THEN R(r1.h, NoneV, r1.err, r1.tr)
      ELSE LET r2 == Eval(r1.h, h[id].ch[2], Args(args.pos, <<>>), d + 1)
           IN  IF r2.err # "" THEN R(r2.h, NoneV, r2.err, r1.tr \o r2.tr)
               ELSE LET v == BinOp(h[id].kind, r1.val, r2.val)
                    IN  R(r2.h, v.val, v.err, r1.tr \o r2.tr)

\* fault variant of EvalBinary: the second operand is invoked although the
\* first one failed
EvalBinaryKeepsGoing(h, id, args, d) ==
  LET r1 == Eval(h, h[id].ch[1], args, d + 1)
      r2 == Eval(r1.h, h[id].ch[2], args, d + 1)
  IN  IF r1.err # "" THEN R(r2.h, NoneV, r1.err, r1.tr \o r2.tr)
      ELSE IF r2.err # "" THEN R(r2.h, NoneV, r2.err, r1.tr \o r2.tr)
      ELSE LET v == BinOp(h[id].kind, r1.val, r2.val)
           IN  R(r2.h, v.val, v.err, r1.tr \o r2.tr)

\* Sum.__call__, Product.__call__, Less.__call__
EvalBinary(h, id, args, d) ==
  LET r1 == Eval(h, h[id].ch[1], args, d + 1)
  IN  IF r1.err # "" THEN R(r1.h, NoneV, r1.err, r1.tr)
      ELSE LET r2 == Eval(r1.h, h[id].ch[2], args, d + 1)
           IN  IF r2.err # "" THEN R(r2.h, NoneV, r2.err, r1.tr \o r2.tr)
               ELSE LET v == BinOp(h[id].kind, r1.val, r2.val)
                    IN  R(r2.h, v.val, v.err, r1.tr \o r2.tr)

\* the outcome of a node whose children gave s and whose native operation
\* gave v
Returned(s, v) == R(s.h, v.val, v.err, s.tr)

\* numpy.logical_and(c1, c2): both comparisons are made first
BothAnd(c1, c2) ==
  IF c1.err # "" THEN c1
  ELSE IF c2.err # "" THEN c2
  ELSE NumpyLogicalAnd(c1.val, c2.val)

\* c1 and c2 of a chained comparison: c2 is made only when c1 is true
ChainedAnd(c1, c2) ==
  IF c1.err # "" THEN c1
  ELSE IF c1.val.n = 0 THEN c1
  ELSE c2

\* fault variant of InBetweenValue: the upper bound is inclusive
InBetweenHighInclusive(value, low, high) ==
  IF numpy_available
  THEN BothAnd(PyLessEqual(low, value, python3), PyLessEqual(value, high, python3))
  ELSE ChainedAnd(PyLessEqual(low, value, python3), PyLessEqual(value, high, python3))

\* what InBetween.__call__ returns for the values of its operands
InBetweenValue(value, low, high) ==
  IF numpy_available
  THEN BothAnd(PyLessEqual(low, value, python3), PyLess(value, high, python3))
  ELSE ChainedAnd(PyLessEqual(low, value, python3), PyLess(value, high, python3))

\* InBetween.__call__ after low, high and value were called, with outcome s
InBetweenReturn(s) ==
  IF s.err # "" THEN R(s.h, NoneV, s.err, s.tr)
  ELSE Returned(s, InBetweenValue(s.vals[3], s.vals[1], s.vals[2]))

\* InBetween.__call__: low, high and value are called in this order
EvalInBetween(h, id, args, d) ==
  InBetweenReturn(EvalSeq(h, <<h[id].ch[2], h[id].ch[3], h[id].ch[1]>>, 0, args, d + 1))

\* if c: return then; else: return else
Branch(c, then, else) ==
  IF c.err # "" THEN c
  ELSE IF c.val.n # 0 THEN then
  ELSE else

\* fault variant of ClipFallback: leaf < low is not tested
ClipFallbackNoLow(leaf, low, high) ==
  Branch(PyLess(leaf, high, python3), Good(leaf), Good(high))

\* the scalar branch of Clip.__call__
ClipFallback(leaf, low, high) ==
  Branch(PyLess(leaf, low, python3), Good(low),
         Branch(PyLess(leaf, high, python3), Good(leaf), Good(high)))

\* what Clip.__call__ returns for the values of its operands
ClipValue(leaf, low, high) ==
  IF numpy_available THEN NumpyClip(leaf, low, high)
  ELSE ClipFallback(leaf, low, high)

\* Clip.__call__ after low, high and leaf were called, with outcome s
ClipReturn(s) ==
  IF s.err # "" THEN R(s.h, NoneV, s.err, s.tr)
  ELSE Returned(s, ClipValue(s.vals[3], s.vals[1], s.vals[2]))

\* Clip.__call__: low, high and leaf are called in this order
EvalClip(h, id, args, d) ==
  ClipReturn(EvalSeq(h, <<h[id].ch[1], h[id].ch[2], h[id].ch[3]>>, 0, args, d + 1))

\* Neg.__call__(self, invertible)
EvalNeg(h, id, args, d) ==
  IF Len(args.pos) # 1 \/ args.kw # <<>> THEN R(h, NoneV, "TypeError", <<>>)
  ELSE LET v == PyNeg(args.pos[1]) IN R(h, v.val, v.err, <<>>)

\* Indexing.__call__(self, indexable)
EvalIndexing(h, id, args, d) ==
  IF Len(args.pos) # 1 \/ args.kw # <<>> THEN R(h, NoneV, "TypeError", <<>>)
  ELSE LET v == PyGetItem(args.pos[1], h[id].val) IN R(h, v.val, v.err, <<>>)

\* _List.__call__ and _Tuple.__call__
EvalList(h, id, args, d) ==
  LET s == EvalSeq(h, h[id].ch, MapIterStart(h[id].it), args, d + 1)
      h2 == [s.h EXCEPT ![id].it = MapIterAfter(s.n)]
  IN  IF s.err # "" THEN R(h2, NoneV, s.err, s.tr)
      ELSE R(h2, Val(IF h[id].kind = "_List" THEN "list" ELSE "tuple", 0, s.vals),
             "", s.tr)

\* _Dict.__call__
EvalDict(h, id, args, d) ==
  LET ks == EvalSeq(h, h[id].ch, MapIterStart(h[id].it), args, d + 1)
      h1 == [ks.h EXCEPT ![id].it = MapIterAfter(ks.n)]
  IN  IF ks.err # "" THEN R(h1, NoneV, ks.err, ks.tr)
      ELSE LET vs == EvalSeq(h1, h[id].ch2, MapIterStart(h[id].it2), args, d + 1)
               h2 == [vs.h EXCEPT ![id].it2 = MapIterAfter(vs.n)]
           IN  IF vs.err # "" THEN R(h2, NoneV, vs.err, ks.tr \o vs.tr)
               ELSE LET v == DictOfZip(ks.vals, vs.vals, 1, <<>>)
                    IN  R(h2, v.val, v.err, ks.tr \o vs.tr)

\* the body of f.__call__(*args, **kwargs), by the class of f
EvalNode(h, id, args, d) ==
  LET kind == h[id].kind
  IN  CASE kind \in {"Constant", "OpConstant"} -> EvalConstant(h, id, args, d)
        [] kind \in {"Identity", "OpIdentity"} -> EvalIdentity(h, id, args, d)
        [] kind = "OpWrap" -> EvalOpWrap(h, id, args, d)
        [] kind = "ComposedFunction" -> EvalComposed(h, id, args, d)
        [] kind \in {"Sum", "Product", "Less"} -> EvalBinary(h, id, args, d)
        [] kind = "InBetween" -> EvalInBetween(h, id, args, d)
        [] kind = "Clip" -> EvalClip(h, id, args, d)
        [] kind = "Neg" -> EvalNeg(h, id, args, d)
        [] kind = "Indexing" -> EvalIndexing(h, id, args, d)
        [] kind \in {"_List", "_Tuple"} -> EvalList(h, id, args, d)
        [] kind = "_Dict" -> EvalDict(h, id, args, d)

\* the invocation of heap object id at depth d, whose body had outcome r:
\* its events enclose those of the body
Invoked(id, args, d, r) ==
  R(r.h, r.val, r.err,
    <<CallEv(id, args, d)>> \o r.tr
      \o <<IF r.err = "" THEN RetEv(id, d, r.val) ELSE RaiseEv(id, d, r.err)>>)

\* f(*args, **kwargs): the invocation of heap object id at depth d
Eval(h, id, args, d) == Invoked(id, args, d, EvalNode(h, id, args, d))

\* ------------------------------------------------------------ construction
\* Every constructor returns the heap afterwards, the new object (ref) and
\* the exception it raised (err; then ref = 0).

Failed(h, err) == [h |-> h, ref |-> 0, err |-> err]

\* fault variant of asfunction: a Function is wrapped as a Constant too
asfunctionAlwaysWraps(h, x) == Alloc(h, Node("Constant", <<>>, <<>>, x))

\* function.asfunction
asfunction(h, x) ==
  IF IsRef(x) THEN [h |-> h, ref |-> x.n, err |-> ""]
  ELSE Alloc(h, Node("Constant", <<>>, <<>>, x))

\* op.asopfunction
asopfunction(h, x) ==
  IF IsRef(x) /\ IsOp(h[x.n].kind) THEN [h |-> h, ref |-> x.n, err |-> ""]
  ELSE IF IsRef(x) THEN Alloc(h, Node("OpWrap", <<x.n>>, <<>>, NoneV))
  ELSE Alloc(h, Node("OpConstant", <<>>, <<>>, x))

\* Sum.__init__, Product.__init__, Less.__init__, ComposedFunction.__init__:
\* both operands go through asfunction, the first one first
BinaryInit(h, kind, one, two) ==
  LET a == asfunction(h, one)
      b == asfunction(a.h, two)
  IN  Alloc(b.h, Node(kind, <<a.ref, b.ref>>, <<>>, NoneV))

\* InBetween.__init__(value, low, high), Clip.__init__(low, high, leaf): the
\* three operands go through asfunction in the order of the assignments
TernaryInit(h, kind, x1, x2, x3) ==
  LET a == asfunction(h, x1)
      b == asfunction(a.h, x2)
      c == asfunction(b.h, x3)
  IN  Alloc(c.h, Node(kind, <<a.ref, b.ref, c.ref>>, <<>>, NoneV))

\* Neg(*extra): Neg.__init__(self) takes no parameter
NegInit(h, extra) ==
  IF Len(extra) # 0 THEN Failed(h, "TypeError")
  ELSE Alloc(h, Node("Neg", <<>>, <<>>, NoneV))

\* Indexing(index): Apply.__init__ stores the parameter
IndexingInit(h, index) == Alloc(h, Node("Indexing", <<>>, <<>>, index))

\* OpFunction.__or__
Or(h, self, other) == BinaryInit(h, "ComposedFunction", RefV(self), other)

\* OpFunction.__neg__
NegOf(h, self) ==
  LET ng == NegInit(h, <<>>)
  IN  IF ng.err # "" THEN ng ELSE Or(ng.h, self, RefV(ng.ref))

\* OpFunction.__add__
AddOf(h, self, other) ==
  LET o == asfunction(h, other)
  IN  BinaryInit(o.h, "Sum", RefV(self), RefV(o.ref))

\* OpFunction.__radd__
RAddOf(h, self, other) ==
  LET o == asfunction(h, other)
  IN  BinaryInit(o.h, "Sum", RefV(o.ref), RefV(self))

\* OpFunction.__sub__
SubOf(h, self, other) ==
  LET o == asfunction(h, other)
      ng == NegInit(o.h, <<RefV(o.ref)>>)
  IN  IF ng.err # "" THEN ng
      ELSE BinaryInit(ng.h, "Sum", RefV(self), RefV(ng.ref))

\* OpFunction.__rsub__
RSubOf(h, self, other) ==
  LET o == asfunction(h, other)
      ng == NegOf(o.h, self)
  IN  IF ng.err # "" THEN ng
      ELSE BinaryInit(ng.h, "Sum", RefV(o.ref), RefV(ng.ref))

\* OpFunction.__mul__
MulOf(h, self, other) ==
  LET o == asfunction(h, other)
  IN  BinaryInit(o.h, "Product", RefV(self), RefV(o.ref))

\* OpFunction.__lt__
LtOf(h, self, other) == BinaryInit(h, "Less", RefV(self), other)

\* OpFunction.__getitem__
GetItemOf(h, self, index) ==
  LET ix == IndexingInit(h, index)
  IN  Or(ix.h, self, RefV(ix.ref))

\* OpFunction.clip
ClipOf(h, self, low, high) == TernaryInit(h, "Clip", low, high, RefV(self))

\* _List.__init__, _Tuple.__init__: map(asfunction, elements) over elements
\* that compound has already converted
ListInit(h, kind, refs) == Alloc(h, Node(kind, refs, <<>>, NoneV))

\* the positions 1..n in the order given by the permutation p of 1..m, m >= n
OrderBy(n, p) ==
  LET Within(i) == i <= n IN SelectSeq(p, Within)

\* _Dict.__init__(dictionary): dictionary.keys() and dictionary.values(), in
\* the iteration order `order` of the dictionary
DictInit(h, keyrefs, valuerefs, order) ==
  Alloc(h, Node("_Dict",
                [j \in 1..Len(order) |-> keyrefs[order[j]]],
                [j \in 1..Len(order) |-> valuerefs[order[j]]],
                NoneV))

RECURSIVE compound(_, _, _)
RECURSIVE compoundEach(_, _, _, _)

\* [compound(element) for element in objs], from position i on.  ps: the
\* iteration orders of the dictionaries still to be built (Python 2).
compoundEach(h, objs, i, ps) ==
  IF i > Len(objs) THEN [h |-> h, refs |-> <<>>, err |-> "", ps |-> ps]
  ELSE LET c == compound(h, objs[i], ps)
       IN  IF c.err # "" THEN [h |-> c.h, refs |-> <<>>, err |-> c.err, ps |-> c.ps]
           ELSE LET rest == compoundEach(c.h, objs, i + 1, c.ps)
                IN  [h |-> rest.h, refs |-> <<c.ref>> \o rest.refs, err |-> rest.err,
                     ps |-> rest.ps]

\* op.compound
compound(h, obj, ps) ==
  IF obj.t \in {"list", "tuple"}
  THEN LET c == compoundEach(h, obj.k, 1, ps)
       IN  IF c.err # "" THEN [h |-> c.h, ref |-> 0, err |-> c.err, ps |-> c.ps]
           ELSE LET l == ListInit(c.h, IF obj.t = "list" THEN "_List" ELSE "_Tuple", c.refs)
                IN  [h |-> l.h, ref |-> l.ref, err |-> "", ps |-> c.ps]
  ELSE IF obj.t = "dict"
  THEN LET kc == compoundEach(h, [i \in 1..Len(obj.k) |-> obj.k[i].k[1]], 1, ps)
           vc == compoundEach(kc.h, [i \in 1..Len(obj.k) |-> obj.k[i].k[2]], 1, kc.ps)
       IN  IF kc.err # "" THEN [h |-> kc.h, ref |-> 0, err |-> kc.err, ps |-> kc.ps]
           ELSE IF vc.err # "" THEN [h |-> vc.h, ref |-> 0, err |-> vc.err, ps |-> vc.ps]
           \* dict(zip(keys, values)) hashes every key Function
           ELSE IF \E i \in 1..Len(kc.refs) : ~HashableFunction(vc.h[kc.refs[i]].kind)
                THEN [h |-> vc.h, ref |-> 0, err |-> "TypeError", ps |-> vc.ps]
           ELSE LET order == IF python3 \/ vc.ps = <<>>
                             THEN [j \in 1..Len(kc.refs) |-> j]
                             ELSE OrderBy(Len(kc.refs), Head(vc.ps))
                    dn == DictInit(vc.h, kc.refs, vc.refs, order)
                IN  [h |-> dn.h, ref |-> dn.ref, err |-> "",
                     ps |-> IF vc.ps = <<>> THEN <<>> ELSE Tail(vc.ps)]
  ELSE LET a == asfunction(h, obj)
       IN  [h |-> a.h, ref |-> a.ref, err |-> "", ps |-> ps]

\* ------------------------------------------------------------------ state

\* last: op names the call ("call": an evaluation); in: its operands (for an
\* evaluation the evaluated object); args: the call arguments of an
\* evaluation; ret: the object a construction call returned (0: none); val,
\* err: the value an evaluation returned, the exception the call raised;
\* tr: the events of an evaluation; base: the number of objects before the
\* call; org: the construction call (op, in, base) that returned the object
\* the user holds
Rec(op, in, args, ret, val, err, tr, base, org) ==
  [op |-> op, in |-> in, args |-> args, ret |-> ret, val |-> val, err |-> err,
   tr |-> tr, base |-> base, org |-> org]
Origin(op, in, base) == [op |-> op, in |-> in, base |-> base]
NoCall == Rec("", <<>>, NoArgs, 0, NoneV, "", <<>>, 0, Origin("", <<>>, 0))
Outcome(c) == [in |-> c.in, args |-> c.args, val |-> c.val, err |-> c.err]
NoOutcome == [in |-> <<>>, args |-> NoArgs, val |-> NoneV, err |-> ""]

Init ==
  /\ heap = <<>>
  /\ numpy_available \in BOOLEAN
  /\ python3 \in BOOLEAN
  /\ nbuilt = 0
  /\ last = NoCall
  /\ prev = NoOutcome

\* plain values and call arguments a caller passes
PlainVals == {IntV(i) : i \in 1..MaxInt}
Refs == {RefV(i) : i \in 1..Len(heap)}
OpRefs == {i \in 1..Len(heap) : IsOp(heap[i].kind)}
Operands == PlainVals \cup Refs
\* operands whose own class does not overload the operator, so that Python
\* falls back to the reflected method of the right operand
Reflected == {x \in Operands : IsRef(x) => ~IsOp(heap[x.n].kind)}
CallArgs ==
  { NoArgs,
    Args(<<IntV(1)>>, <<>>),
    Args(<<IntV(1), IntV(2)>>, <<>>),
    Args(<<IntV(2)>>, <<KwItem("x", IntV(1))>>) }

\* the object the user holds from the last call: the one just constructed, or
\* the one just evaluated
Built ==
  IF last.op = "call" THEN {last.in[1].n}
  ELSE IF last.ret # 0 THEN {last.ret} ELSE {}

\* a construction call op(in) with outcome c
Construct(op, in, c) ==
  /\ nbuilt < MaxBuilds
  /\ nbuilt' = nbuilt + 1
  /\ heap' = c.h
  /\ last' = Rec(op, in, NoArgs, c.ref, NoneV, c.err, <<>>, Len(heap),
                 Origin(op, in, Len(heap)))
  /\ prev' = NoOutcome
  /\ UNCHANGED <<numpy_available, python3>>

AsFunction(x) == Construct("asfunction", <<x>>, asfunction(heap, x))
AsOpFunction(x) == Construct("asopfunction", <<x>>, asopfunction(heap, x))
NewIdentity == Construct("Identity", <<>>, Alloc(heap, Node("Identity", <<>>, <<>>, NoneV)))
NewOpIdentity ==
  Construct("OpIdentity", <<>>, Alloc(heap, Node("OpIdentity", <<>>, <<>>, NoneV)))
Add(self, other) == Construct("add", <<RefV(self), other>>, AddOf(heap, self, other))
Sub(self, other) == Construct("sub", <<RefV(self), other>>, SubOf(heap, self, other))
RSub(self, other) == Construct("rsub", <<RefV(self), other>>, RSubOf(heap, self, other))
Mul(self, other) == Construct("mul", <<RefV(self), other>>, MulOf(heap, self, other))
Lt(self, other) == Construct("lt", <<RefV(self), other>>, LtOf(heap, self, other))
Negate(self) == Construct("neg", <<RefV(self)>>, NegOf(heap, self))
Pipe(self, other) == Construct("or", <<RefV(self), other>>, Or(heap, self, other))
GetItem(self, index) ==
  Construct("getitem", <<RefV(self), index>>, GetItemOf(heap, self, index))

\* root(*args, **kwargs), called by the user
Call(root, args) ==
  \E r \in {Eval(heap, root, args, 0)} :
      /\ heap' = r.h
      /\ last' = Rec("call", <<RefV(root)>>, args, 0, r.val, r.err, r.tr, Len(heap),
                     last.org)
      /\ prev' = IF last.op = "call" /\ last.in = <<RefV(root)>> /\ last.args = args
                 THEN Outcome(last) ELSE NoOutcome
      /\ UNCHANGED <<numpy_available, python3, nbuilt>>

Next ==
  \/ \E x \in Operands : AsFunction(x)
  \/ \E x \in Operands : AsOpFunction(x)
  \/ NewOpIdentity
  \/ \E self \in OpRefs, other \in Operands : Add(self, other)
  \/ \E self \in OpRefs, other \in Operands : Sub(self, other)
  \/ \E self \in OpRefs, other \in Reflected : RSub(self, other)
  \/ \E self \in OpRefs, other \in Operands : Mul(self, other)
  \/ \E self \in OpRefs, other \in Operands : Lt(self, other)
  \/ \E self \in OpRefs : Negate(self)
  \/ \E self \in OpRefs, other \in Operands : Pipe(self, other)
  \/ \E self \in OpRefs, index \in PlainVals : GetItem(self, index)
  \/ \E root \in Built, args \in CallArgs : Call(root, args)

Spec == Init /\ [][Next]_vars

\* ------------------------------------------------------ structural lifting

SeqsUpTo(E, n) == UNION {[1..m -> E] : m \in 0..n}
RECURSIVE NDicts(_)
NDicts(obj) ==
  (IF obj.t = "dict" THEN 1 ELSE 0)
  + (IF obj.k = <<>> THEN 0
     ELSE LET Sum[i \in 0..Len(obj.k)] ==
                IF i = 0 THEN 0 ELSE Sum[i - 1] + NDicts(obj.k[i])
          IN  Sum[Len(obj.k)])

\* the literals a caller lifts: plain integers and Functions already built,
\* flat lists, tuples and dicts of them, and one level of nesting
Atoms == PlainVals \cup Refs
KeyAtoms == {x \in Atoms : IsRef(x) => HashableFunction(heap[x.n].kind)}
Items(K, V) == {TupleV(<<k, v>>) : k \in K, v \in V}
DictsOf(K, V, n) ==
  {DictV(s) : s \in {s \in SeqsUpTo(Items(K, V), n) :
                       \A i, j \in 1..Len(s) : i # j => s[i].k[1] # s[j].k[1]}}
Flat ==
  {ListV(s) : s \in SeqsUpTo(Atoms, MaxLen)}
    \cup {TupleV(s) : s \in SeqsUpTo(Atoms, MaxLen)}
    \cup DictsOf(KeyAtoms, Atoms, MaxLen)
Inner ==
  {ListV(s) : s \in SeqsUpTo(Atoms, 1)}
    \cup {TupleV(s) : s \in SeqsUpTo(Atoms, 1)}
    \cup DictsOf(KeyAtoms, Atoms, 1)
Nested ==
  {ListV(<<y>>) : y \in Inner}
    \cup {TupleV(<<y>>) : y \in Inner}
    \cup {ListV(<<x, y>>) : x \in Atoms, y \in Inner}
    \cup {TupleV(<<y, x>>) : x \in Atoms, y \in Inner}
    \cup DictsOf(KeyAtoms, Inner, 1)
    \cup DictsOf({TupleV(s) : s \in SeqsUpTo(PlainVals, 1)}, Atoms, 1)
Literals == Atoms \cup Flat \cup Nested

\* the iteration orders of a dict of up to MaxLen items
DictOrders ==
  {p \in [1..MaxLen -> 1..MaxLen] : \A i, j \in 1..MaxLen : i # j => p[i] # p[j]}

\* a structural node exists
Lifted == \E i \in 1..Len(heap) : heap[i].kind \in {"_List", "_Tuple", "_Dict"}

Compound(obj, ps) ==
  LET c == compound(heap, obj, ps)
  IN  Construct("compound", <<obj>>, [h |-> c.h, ref |-> c.ref, err |-> c.err])

\* the user builds plain Functions, lifts one literal and evaluates it
NextLift ==
  \/ ~Lifted /\ \E x \in PlainVals : AsFunction(x)
  \/ ~Lifted /\ NewIdentity
  \/ ~Lifted /\ \E obj \in Literals :
        \E ps \in IF python3 THEN {<<>>} ELSE [1..NDicts(obj) -> DictOrders] :
           Compound(obj, ps)
  \/ \E root \in Built, args \in CallArgs : Call(root, args)

SpecLift == Init /\ [][NextLift]_vars

\* ------------------------------------------------------ Clip and InBetween

TernaryVals == {IntV(i) : i \in 0..MaxInt}
TernaryArgs == {Args(<<IntV(i)>>, <<>>) : i \in 0..MaxInt}

\* the Functions that return their call argument
IdentityRefs == {x \in Refs : heap[x.n].kind \in {"Identity", "OpIdentity"}}
\* bounds are integers or the call argument; the clipped or tested operand is
\* an integer or a node built before
Bounds == TernaryVals \cup IdentityRefs
Leaves == TernaryVals \cup {RefV(i) : i \in OpRefs}

MkClip(low, high, leaf) ==
  Construct("Clip", <<low, high, leaf>>, TernaryInit(heap, "Clip", low, high, leaf))
ClipMethod(self, low, high) ==
  Construct("clip", <<RefV(self), low, high>>, ClipOf(heap, self, low, high))
MkInBetween(value, low, high) ==
  Construct("InBetween", <<value, low, high>>,
            TernaryInit(heap, "InBetween", value, low, high))

\* the user builds Clip nodes and evaluates them with one integer argument
NextClip ==
  \/ \E x \in TernaryVals : AsOpFunction(x)
  \/ NewOpIdentity
  \/ \E low, high \in Bounds, leaf \in Leaves : MkClip(low, high, leaf)
  \/ \E self \in OpRefs, low, high \in Bounds : ClipMethod(self, low, high)
  \/ \E root \in Built, args \in TernaryArgs : Call(root, args)

SpecClip == Init /\ [][NextClip]_vars

\* the user builds InBetween nodes and evaluates them with one integer argument
NextInBetween ==
  \/ \E x \in TernaryVals : AsOpFunction(x)
  \/ NewOpIdentity
  \/ \E low, high \in Bounds, value \in Leaves : MkInBetween(value, low, high)
  \/ \E root \in Built, args \in TernaryArgs : Call(root, args)

SpecInBetween == Init /\ [][NextInBetween]_vars

\* ================================================================== claims

\* ---- helpers on the events of the last evaluation

Tr == last.tr
IsEval == last.op = "call"
Root == last.in[1].n
Calls == {i \in 1..Len(Tr) : Tr[i].e = "call"}
\* the invocation that made invocation i (i at depth > 0)
Parent(i) ==
  CHOOSE j \in Calls : /\ j < i /\ Tr[j].d = Tr[i].d - 1
                       /\ \A k \in Calls : (k < i /\ Tr[k].d = Tr[i].d - 1) => k <= j
\* the event that ends invocation i
End(i) ==
  CHOOSE j \in 1..Len(Tr) : /\ j > i /\ Tr[j].e # "call" /\ Tr[j].d = Tr[i].d
                            /\ \A k \in (i + 1)..(j - 1) : Tr[k].d > Tr[i].d
\* the invocations made directly by invocation i, in order
ChildCalls(i) ==
  LET Direct(k) == k > i /\ k < End(i) /\ Tr[k].e = "call" /\ Tr[k].d = Tr[i].d + 1
      Idx == [k \in 1..Len(Tr) |-> k]
  IN  SelectSeq(Idx, Direct)
\* invocation i is the invocation of b by a ComposedFunction
IsPipeB(i) ==
  /\ Tr[i].d > 0
  /\ heap[Tr[Parent(i)].node].kind = "ComposedFunction"
  /\ \E k \in Calls : Parent(i) < k /\ k < i /\ Tr[k].d = Tr[i].d
RECURSIVE BelowPipeB(_)
\* invocation i is made by b of some ComposedFunction, or below it
BelowPipeB(i) == Tr[i].d > 0 /\ (IsPipeB(i) \/ BelowPipeB(Parent(i)))
IsLeaf(id) == heap[id].kind \in {"Constant", "OpConstant", "Identity", "OpIdentity"}

\* ---- C1

\* C1 as stated: in one evaluation every leaf node (Constant, Identity) of
\* the tree is invoked with exactly the arguments of the evaluation.
\* (Violated: the leaves of b in a | b are invoked with the result of a.)
C1_EveryLeafGetsCallArgs ==
  IsEval => \A i \in Calls : IsLeaf(Tr[i].node) => Tr[i].args = last.args

\* C1 amended: the root is invoked with the arguments of the evaluation; every
\* node passes the arguments it was invoked with, unmodified, to each child it
\* invokes, except a ComposedFunction to its right operand b; hence every
\* node that is not b of a ComposedFunction, or below one, is invoked with
\* exactly the arguments of the evaluation.
C1_ArgsForwardedExceptPipeB ==
  IsEval =>
    \A i \in Calls :
      /\ Tr[i].d = 0 => Tr[i].args = last.args
      /\ (Tr[i].d > 0 /\ ~IsPipeB(i)) => Tr[i].args = Tr[Parent(i)].args
      /\ ~BelowPipeB(i) => Tr[i].args = last.args

\* C1 witness: a binary node evaluated with positional and keyword arguments
\* has invoked both operands, a leaf among them, with those arguments.
C1_Witness ==
  /\ IsEval /\ last.args.kw # <<>> /\ last.args.pos # <<>>
  /\ heap[Root].kind \in {"Sum", "Product", "Less"}
  /\ Len(ChildCalls(1)) = 2
  /\ \E i \in Calls : Tr[i].d = 1 /\ IsLeaf(Tr[i].node) /\ Tr[i].args = last.args

\* ---- C2

\* C2: evaluating ComposedFunction(a, b) with args invokes a first, with
\* args; when a returns v it then invokes b with v as the single positional
\* argument and no keyword argument, and returns what b returns; it invokes
\* nothing else, and does not invoke b when a fails.
C2_PipeOrder ==
  (IsEval /\ heap[Root].kind = "ComposedFunction") =>
    LET a == heap[Root].ch[1]
        b == heap[Root].ch[2]
        cs == ChildCalls(1)
    IN  /\ Len(cs) >= 1
        /\ cs[1] = 2
        /\ Tr[2].node = a
        /\ Tr[2].args = last.args
        /\ IF Tr[End(2)].e = "raise"
           THEN Len(cs) = 1 /\ last.err # ""
           ELSE /\ Len(cs) = 2
                /\ cs[2] = End(2) + 1
                /\ Tr[cs[2]].node = b
                /\ Tr[cs[2]].args = Args(<<Tr[End(2)].val>>, <<>>)
                /\ last.err = Tr[End(cs[2])].err
                /\ last.val = Tr[End(cs[2])].val

\* C2 witness: a pipe whose b returns its input has been evaluated; a
\* returned a value different from the call arguments, b was invoked with it
\* and the evaluation returned it.
C2_Witness ==
  /\ IsEval /\ heap[Root].kind = "ComposedFunction" /\ last.err = ""
  /\ heap[heap[Root].ch[2]].kind \in {"Identity", "OpIdentity"}
  /\ last.args.pos # <<last.val>>
  /\ Len(ChildCalls(1)) = 2
  /\ last.val = Tr[End(2)].val

\* ---- C3

\* a - b on values
PySub(a, b) == IF IsNum(a) /\ IsNum(b) THEN Good(IntV(a.n - b.n)) ELSE Bad("TypeError")
\* the value of operand x (a Function or a plain value) for args
OperandValue(x, args) ==
  IF IsRef(x) THEN LET r == Eval(heap, x.n, args, 0) IN [val |-> r.val, err |-> r.err]
  ELSE Good(x)
\* evaluating node id gives x - y of the operands, for all args
EvaluatesToDifference(id, x, y) ==
  \A args \in CallArgs :
    LET r == Eval(heap, id, args, 0)
        vx == OperandValue(x, args)
        vy == OperandValue(y, args)
        e == PySub(vx.val, vy.val)
    IN  (vx.err = "" /\ vy.err = "" /\ e.err = "") => (r.err = "" /\ r.val = e.val)

\* C3 as stated: a - b never fails and returns a Sum node that evaluates to
\* a(args) - b(args); b - a with plain b returns a node that evaluates to
\* b - a(args).  (Violated: a - b raises TypeError in OpFunction.__sub__.)
C3_SubtractionBuildsDifference ==
  /\ last.op = "sub" =>
       /\ last.err = "" /\ last.ret # 0
       /\ heap[last.ret].kind = "Sum"
       /\ EvaluatesToDifference(last.ret, last.in[1], last.in[2])
  /\ last.op = "rsub" =>
       /\ last.err = "" /\ last.ret # 0
       /\ heap[last.ret].kind = "Sum"
       /\ EvaluatesToDifference(last.ret, last.in[2], last.in[1])

\* ---- C5

\* C5: asfunction(x) returns x itself, and creates nothing, when x is a
\* Function; otherwise it returns a new Constant that evaluates to x for all
\* arguments; applied to its own result it returns that result again.
C5_AsFunctionIdempotent ==
  last.op = "asfunction" =>
    LET x == last.in[1]
    IN  /\ last.err = ""
        /\ IsRef(x) => (last.ret = x.n /\ Len(heap) = last.base)
        /\ ~IsRef(x) =>
             /\ last.ret = last.base + 1 /\ Len(heap) = last.base + 1
             /\ heap[last.ret].kind = "Constant"
             /\ \A args \in CallArgs :
                  LET r == Eval(heap, last.ret, args, 0)
                  IN  r.err = "" /\ r.val = x
        /\ asfunction(heap, RefV(last.ret)) = [h |-> heap, ref |-> last.ret, err |-> ""]

\* C5 witness: asfunction was applied to a Function that asfunction itself
\* had returned (a Constant), and returned it.
C5_Witness ==
  /\ last.op = "asfunction" /\ IsRef(last.in[1])
  /\ heap[last.in[1].n].kind = "Constant"
  /\ last.ret = last.in[1].n

\* ---- lifting: the literal that was lifted and what it should evaluate to

Source == last.org.in[1]
IsLiftOf(kinds) == last.org.op = "compound" /\ Source.t \in kinds
RECURSIVE Expect(_, _)
RECURSIVE ExpectSeq(_, _, _)
\* the values of the literals objs[i..] for args, up to the first failure
ExpectSeq(objs, i, args) ==
  IF i > Len(objs) THEN [vals |-> <<>>, err |-> ""]
  ELSE LET e == Expect(objs[i], args)
       IN  IF e.err # "" THEN [vals |-> <<>>, err |-> e.err]
           ELSE LET rest == ExpectSeq(objs, i + 1, args)
                IN  [vals |-> <<e.val>> \o rest.vals, err |-> rest.err]
\* the value of the literal obj for args: a Function is evaluated with args,
\* a list, tuple or dict element by element, any other value is itself
Expect(obj, args) ==
  IF IsRef(obj) THEN OperandValue(obj, args)
  ELSE IF obj.t \in {"list", "tuple"}
       THEN LET es == ExpectSeq(obj.k, 1, args)
            IN  IF es.err # "" THEN Bad(es.err) ELSE Good(Val(obj.t, 0, es.vals))
  ELSE IF obj.t = "dict"
       THEN LET ks == ExpectSeq([i \in 1..Len(obj.k) |-> obj.k[i].k[1]], 1, args)
                vs == ExpectSeq([i \in 1..Len(obj.k) |-> obj.k[i].k[2]], 1, args)
            IN  IF ks.err # "" THEN Bad(ks.err)
                ELSE IF vs.err # "" THEN Bad(vs.err)
                ELSE DictOfZip(ks.vals, vs.vals, 1, <<>>)
  ELSE Good(obj)

\* ---- C4

\* C4 as stated: evaluations leave every node as it was built, and an
\* evaluation that repeats the previous one (same tree, same arguments) has
\* the same outcome; in particular a lifted list, tuple or dict evaluates to
\* the same aggregate again.  (Violated under Python 3: the second evaluation
\* of a _List, _Tuple or _Dict finds its map() iterators exhausted.)
C4_RepeatedEvaluationSame ==
  IsEval =>
    /\ \A i \in 1..Len(heap) : heap[i].it = 0 /\ heap[i].it2 = 0
    /\ prev # NoOutcome => (last.err = prev.err /\ last.val = prev.val)

\* ---- C6

\* C6 as stated: compound of a list or tuple returns a _List or _Tuple, and
\* every evaluation of it with args returns a list or tuple, as the
\* literal, of the same length, whose elements are the values of the
\* literal's elements for args, nested aggregates included.  (Violated on a
\* repeated evaluation under Python 3, and for a nested dict with a tuple
\* key.)
C6_SequenceLiftsToSameShape ==
  IsLiftOf({"list", "tuple"}) =>
    /\ last.op = "compound" =>
         /\ last.err = "" /\ last.ret # 0
         /\ heap[last.ret].kind = (IF Source.t = "list" THEN "_List" ELSE "_Tuple")
    /\ IsEval =>
         LET e == Expect(Source, last.args)
         IN  e.err = "" =>
               /\ last.err = ""
               /\ last.val.t = Source.t
               /\ Len(last.val.k) = Len(Source.k)
               /\ \A i \in 1..Len(Source.k) : PyEq(last.val.k[i], e.val.k[i])

\* ---- C7

\* the source pair that key i of the _Dict node was lifted from
SrcIndex(i) ==
  LET key == heap[Root].ch[i]
  IN  CHOOSE j \in 1..Len(Source.k) :
        LET k == Source.k[j].k[1]
        IN  IF IsRef(k) THEN key = k.n
            ELSE key > last.org.base /\ heap[key].kind = "Constant" /\ heap[key].val = k

\* C7 as stated: compound of a dict returns a _Dict, and every evaluation of
\* it with args returns a dict that has, for every source pair (k, v), an
\* entry for the value of k; the entry holds the value of v of the pair that
\* comes last in the node's key order among the pairs whose keys have that
\* value; there are no other entries.  (Violated: lifting a dict with a
\* tuple key raises TypeError, and a repeated evaluation under Python 3
\* returns an empty dict.)
C7_MappingLiftsPairwise ==
  IsLiftOf({"dict"}) =>
    /\ last.op = "compound" =>
         last.err = "" /\ last.ret # 0 /\ heap[last.ret].kind = "_Dict"
    /\ IsEval =>
         LET n == Len(Source.k)
             ek(j) == Expect(Source.k[j].k[1], last.args)
             ev(j) == Expect(Source.k[j].k[2], last.args)
             pos(j) == CHOOSE i \in 1..n : SrcIndex(i) = j
             Wins(j) == \A j2 \in 1..n :
                          (j2 # j /\ PyEq(ek(j2).val, ek(j).val)) => pos(j2) < pos(j)
             ents == last.val.k
         IN  (\A j \in 1..n : ek(j).err = "" /\ ev(j).err = "") =>
               /\ last.err = "" /\ last.val.t = "dict"
               /\ \A j \in 1..n : \E m \in 1..Len(ents) :
                    /\ PyEq(ents[m].k[1], ek(j).val)
                    /\ \A j2 \in 1..n :
                         (PyEq(ek(j2).val, ek(j).val) /\ Wins(j2)) =>
                            PyEq(ents[m].k[2], ev(j2).val)
               /\ \A m \in 1..Len(ents) : \E j \in 1..n : PyEq(ents[m].k[1], ek(j).val)
               /\ \A m1, m2 \in 1..Len(ents) :
                    m1 # m2 => ~PyEq(ents[m1].k[1], ents[m2].k[1])

\* ---- Clip and InBetween: the operands of the evaluated root

IsEvalOf(kind) == IsEval /\ heap[Root].kind = kind
\* the value of child i of node id for the arguments of the evaluation
ChildOf(id, i) == OperandValue(RefV(heap[id].ch[i]), last.args)
\* the three operands of node id are numbers
Scalars(id) ==
  \A i \in 1..3 : ChildOf(id, i).err = "" /\ IsNum(ChildOf(id, i).val)

\* ---- C8

\* C8: evaluating Clip(low, high, leaf) with low <= high returns low when
\* leaf < low, high when leaf > high, and leaf when low <= leaf <= high, in
\* both backends; so the result lies in [low, high], and clipping the result
\* of a Clip again with the same bounds returns it unchanged.
C8_ClipBoundary ==
  (IsEvalOf("Clip") /\ Scalars(Root)) =>
    LET low == ChildOf(Root, 1).val.n
        high == ChildOf(Root, 2).val.n
        leaf == ChildOf(Root, 3).val.n
        inner == heap[Root].ch[3]
    IN  low <= high =>
          /\ last.err = "" /\ IsNum(last.val)
          /\ leaf < low => last.val.n = low
          /\ leaf > high => last.val.n = high
          /\ (low <= leaf /\ leaf <= high) => last.val.n = leaf
          /\ low <= last.val.n /\ last.val.n <= high
          /\ ( /\ heap[inner].kind = "Clip" /\ Scalars(inner)
               /\ ChildOf(inner, 1).val.n = low /\ ChildOf(inner, 2).val.n = high )
             => last.val.n = leaf

\* C8 witness: a Clip of a Clip with the same bounds low < high has been
\* evaluated; the inner Clip had clipped its operand to a bound and the outer
\* Clip returned that bound.
C8_Witness ==
  /\ IsEvalOf("Clip") /\ Scalars(Root) /\ last.err = ""
  /\ LET inner == heap[Root].ch[3]
     IN  /\ heap[inner].kind = "Clip" /\ Scalars(inner)
         /\ ChildOf(inner, 1).val.n = ChildOf(Root, 1).val.n
         /\ ChildOf(inner, 2).val.n = ChildOf(Root, 2).val.n
         /\ ChildOf(Root, 1).val.n < ChildOf(Root, 2).val.n
         /\ ChildOf(inner, 3).val.n < ChildOf(inner, 1).val.n
         /\ last.val.n = ChildOf(Root, 1).val.n

\* ---- C9

\* C9: evaluating InBetween(value, low, high) on numbers returns a true
\* value exactly when low <= value and value < high, whether or not numpy is
\* available.
C9_InBetweenHalfOpen ==
  (IsEvalOf("InBetween") /\ Scalars(Root)) =>
    LET value == ChildOf(Root, 1).val.n
        low == ChildOf(Root, 2).val.n
        high == ChildOf(Root, 3).val.n
    IN  /\ last.err = "" /\ last.val.t \in {"bool", "bool_"}
        /\ (last.val.n # 0) <=> (low <= value /\ value < high)

\* C9 witness: an InBetween whose value equals low, below high, has been
\* evaluated and returned true.
C9_Witness ==
  /\ IsEvalOf("InBetween") /\ Scalars(Root)
  /\ ChildOf(Root, 1).val.n = ChildOf(Root, 2).val.n
  /\ ChildOf(Root, 1).val.n < ChildOf(Root, 3).val.n
  /\ last.val.n # 0

\* ---- C10

\* C10 as stated: without numpy, Clip(low, high, leaf) on numbers returns
\* what numpy.clip(leaf, low, high) returns, min(max(leaf, low), high), also
\* when low > high.  (Violated for low > high: the fallback returns low when
\* leaf < low, numpy.clip returns high.)
C10_FallbackEqualsBackendClip ==
  (IsEvalOf("Clip") /\ Scalars(Root) /\ ~numpy_available) =>
    LET e == NumpyClip(ChildOf(Root, 3).val, ChildOf(Root, 1).val, ChildOf(Root, 2).val)
    IN  last.err = e.err /\ last.val.n = e.val.n

\* ---- C11

Raises == {i \in 1..Len(Tr) : Tr[i].e = "raise"}
\* the invocation that event i ends
Start(i) == CHOOSE j \in Calls : End(j) = i

\* C11: when an invocation below the root fails with error e (because a
\* child failed or because its own native operation failed), the invoking
\* node does nothing more -- it invokes no further child and returns no
\* value -- and fails with e itself; so every enclosing node up to the root
\* fails with e, and the evaluation fails with e and has no value.
C11_FailurePropagates ==
  IsEval =>
    /\ \A i \in Raises :
         Tr[i].d > 0 =>
           /\ i < Len(Tr)
           /\ Tr[i + 1].e = "raise"
           /\ Tr[i + 1].d = Tr[i].d - 1
           /\ Tr[i + 1].node = Tr[Parent(Start(i))].node
           /\ Tr[i + 1].err = Tr[i].err
    /\ \A i \in Raises : last.err = Tr[i].err /\ last.val = NoneV
    /\ last.err # "" <=> Raises # {}

\* C11 witness: a binary node was evaluated whose first operand failed; the
\* second operand was not invoked and the evaluation failed with the error
\* of the first operand.
C11_Witness ==
  /\ IsEval /\ heap[Root].kind \in {"Sum", "Product", "Less"}
  /\ Len(Tr) = 4
  /\ Tr[2].node = heap[Root].ch[1] /\ Tr[3].e = "raise" /\ Tr[3].d = 1
  /\ Tr[4].e = "raise" /\ Tr[4].node = Root
  /\ last.err = Tr[3].err /\ last.err # ""

\* ---- C12

\* the nodes invoked directly by invocation i, in order
ChildNodes(i) == [k \in 1..Len(ChildCalls(i)) |-> Tr[ChildCalls(i)[k]].node]

\* C12 as stated, for InBetween: every invocation of an InBetween node
\* invokes each of its three children exactly once, in declaration order:
\* value, low, high; in both backends.  (Violated: InBetween.__call__ invokes
\* low, high, value.)
C12_ChildrenInDeclarationOrder ==
  IsEval =>
    \A i \in Calls :
      heap[Tr[i].node].kind = "InBetween" => ChildNodes(i) = heap[Tr[i].node].ch

====
